---------------------------- MODULE Spec2Model ----------------------------
(***************************************************************************)
(* RASSA::simulateChordalAllocation, the register-pressure and spill       *)
(* estimator of the "ssa" register allocator analyzer.                     *)
(*                                                                         *)
(* Three variants of the pass are modelled:                                *)
(*   "basic"  the capacity-only simulator (src/unnamed/part_001 and the    *)
(*            first pass of src/llvm/lib/CodeGen/RegAllocSSA.cpp; the two  *)
(*            differ only in the text they print);                         *)
(*   "abi"    the ABI-aware simulator (src/unnamed/part_000);              *)
(*   "fixed"  the simulator that adds the fixed physical registers to the  *)
(*            reported pressure (second pass of RegAllocSSA.cpp).          *)
(* One behaviour is one run of one variant on one machine function: the    *)
(* collection loop, std::sort, one action per iteration of the scan loop,  *)
(* and the report loop.                                                    *)
(*                                                                         *)
(* A live interval is identified by the index of its virtual register in   *)
(* vregs (the code holds const LiveInterval pointers); vregs lists the     *)
(* virtual registers that pass the reg_nodbg_empty filter, in register     *)
(* index order.                                                            *)
(***************************************************************************)
EXTENDS Integers, Sequences, FiniteSets

\* ------------------------------------------------------------------ bounds
MaxPoint == 2

MaxIntervals == 3

MaxCalls == 1

\* ------------------------------------------------------- the input domains
Points == 0..MaxPoint

Classes == {"GPR", "FPR"}

ClassOrder == <<"GPR", "FPR">>

Variants == {"basic", "abi", "fixed"}

\* A live interval as the data model has it: one [start, end) range, start <= end.
IntervalRecs ==
  {r \in [start : Points, end : Points, rc : Classes] : r.start <= r.end}

\* TRI->getAllocatableSet(MF, RC).count() for each register class.
AllocatableCounts ==
  {[c \in Classes |-> IF c = "GPR" THEN g ELSE f] : g \in {1, 2, 20}, f \in {0, 1}}

\* The physical registers that may appear as instruction operands, and the
\* register class that contains each.
PhysRegs == {"x10", "f10"}

contains(RC, Reg) ==
  \/ RC = "GPR" /\ Reg = "x10"
  \/ RC = "FPR" /\ Reg = "f10"

\* The two register classes are unrelated: neither is a sub-class of the other.
hasSuperClass(RC, Super) == FALSE

hasSubClass(RC, Sub) == FALSE

VARIABLES
  variant,            \* which pass is running
  PhysOperands,       \* physical registers used as operands ("fixed")
  FixedUsage,         \* std::map<RC, std::set<MCRegister>> ("fixed")
  vregs,              \* the used virtual registers' live intervals, by index
  Allocatable,        \* register class -> number of allocatable registers
  CallSites,          \* slot indexes of the call instructions ("abi")
  isRV32E,            \* the subtarget has feature "+e" ("abi")
  pc,                 \* "collect", "sort", "scan", "done"
  Intervals,          \* std::vector<const LiveInterval *> Intervals
  idx,                \* position of the range-for over Intervals
  ClassStats,         \* std::map<RC, RegisterStats>
  ActiveIntervals,    \* std::map<RC, std::vector<const LiveInterval *>>
  ActiveAcrossCalls,  \* the same, for intervals live across a call ("abi")
  locals,             \* the locals of the last scan iteration
  report              \* the lines written to errs()

vars == <<variant, vregs, Allocatable, CallSites, isRV32E, pc, Intervals, idx,
          ClassStats, ActiveIntervals, ActiveAcrossCalls, locals, report,
          PhysOperands, FixedUsage>>

\* ------------------------------------------------------- LiveInterval API
beginIndex(i) == vregs[i].start

endIndex(i) == vregs[i].end

getRegClass(i) == vregs[i].rc

\* Point liveness over the half-open range.
liveAt(i, p) == vregs[i].start <= p /\ p < vregs[i].end

\* ------------------------------------------------------------- vector ops
push_back(list, x) == Append(list, x)

\* Variant: evicts the oldest entry instead of the newest.
pop_front(list) == SubSeq(list, 2, Len(list))

pop_back(list) == SubSeq(list, 1, Len(list) - 1)

Range(s) == {s[k] : k \in 1..Len(s)}

\* std::remove_if + erase with the predicate Active->endIndex() <= Current->beginIndex()
Expired(a, Current) == endIndex(a) <= beginIndex(Current)

RemoveExpired(list, Current) ==
  LET Keep(a) == ~Expired(a, Current) IN SelectSeq(list, Keep)

\* ------------------------------------------------------------- collection
savedRegLimit(rv32e) == IF rv32e THEN 2 ELSE 12

\* Every register with a use is collected, whatever its class.
CollectedWhateverClass(v, i) == TRUE

\* The "abi" pass skips a register whose class has no allocatable register.
Collected(v, i) == v = "abi" => Allocatable[getRegClass(i)] # 0

RECURSIVE CollectFrom(_, _)
CollectFrom(v, i) ==
  IF i > Len(vregs) THEN <<>>
  ELSE IF Collected(v, i) THEN <<i>> \o CollectFrom(v, i + 1)
  ELSE CollectFrom(v, i + 1)

CollectIntervals(v) == CollectFrom(v, 1)

NewStats(v, c) ==
  IF v = "abi"
  THEN [MaxPressure |-> 0, SpillCount |-> 0, TotalPhysRegs |-> Allocatable[c],
        CalleeSavedLimit |-> savedRegLimit(isRV32E)]
  ELSE IF v = "fixed"
  THEN [MaxPressure |-> 0, SpillCount |-> 0, TotalPhysRegs |-> Allocatable[c],
        FixedPhysRegsTouched |-> 0]
  ELSE [MaxPressure |-> 0, CurrentPressure |-> 0, SpillCount |-> 0,
        TotalPhysRegs |-> Allocatable[c]]

\* STEP 1 of the "fixed" pass: every physical operand is entered under every
\* register class that contains it.
CountFixedUsage(operands) ==
  [RC \in {c \in Classes : \E Reg \in operands : contains(c, Reg)} |->
     {Reg \in operands : contains(RC, Reg)}]

\* A record is created for every register class of the target.
CollectStatsEveryClass(v) == [c \in Classes |-> NewStats(v, c)]

CollectStats(v) ==
  [c \in {getRegClass(i) : i \in Range(CollectIntervals(v))} |-> NewStats(v, c)]

\* ------------------------------------------------------------------- sort
IsSortedByBegin(q) ==
  \A i, j \in 1..Len(q) : i < j => ~(beginIndex(q[j]) < beginIndex(q[i]))

Permutations(s) ==
  {q \in [1..Len(s) -> Range(s)] : \A i, j \in 1..Len(s) : q[i] = q[j] => i = j}

\* std::sort with the comparator A->beginIndex() < B->beginIndex(): the result is
\* ordered by begin; the order of equivalent elements is unspecified.
SortOutcomes(s) == {q \in Permutations(s) : IsSortedByBegin(q)}


\* ------------------------------------------------- one scan-loop iteration
\* The simulation state a scan iteration reads and writes.
SimState(stats, active, calls, loc) ==
  [ClassStats |-> stats, ActiveIntervals |-> active, ActiveAcrossCalls |-> calls,
   locals |-> loc]

NoLocals ==
  [crossesCall |-> FALSE, globalPressure |-> 0, forcedSpill |-> FALSE,
   standardSpill |-> FALSE]

\* Variant: records the latest pressure instead of the running maximum.
StoreLastPressure(Stats, pressure) == [Stats EXCEPT !.MaxPressure = pressure]

UpdateMaxPressure(Stats, pressure) ==
  IF pressure > Stats.MaxPressure THEN [Stats EXCEPT !.MaxPressure = pressure] ELSE Stats

\* Variant: spills only once the pressure is two above the capacity.
StandardSpillLate(pressure, Stats) == pressure > Stats.TotalPhysRegs + 1

\* Variant: spills as soon as the pressure reaches the capacity.
StandardSpillAtCapacity(pressure, Stats) == pressure >= Stats.TotalPhysRegs

\* "Spill Check" of the capacity-only pass / standardSpill of the ABI-aware pass.
StandardSpill(pressure, Stats) == pressure > Stats.TotalPhysRegs

\* Variant: forces a spill as soon as the call list reaches the limit.
ForcedSpillAtLimit(CallList, Stats) == Len(CallList) >= Stats.CalleeSavedLimit

\* "ABI Bottleneck Check".
ForcedSpill(CallList, Stats) == Len(CallList) > Stats.CalleeSavedLimit

\* Variant: the eviction block ignores the ABI gate.
SpillOnCapacityOnly(forcedSpill, standardSpill) == standardSpill

\* The condition of the eviction block: either gate records the one spill.
SpillNow(forcedSpill, standardSpill) == forcedSpill \/ standardSpill

\* A call at the very start of Current is not counted.
CrossesCallInside(Current, calls) ==
  \E CallIdx \in calls :
    beginIndex(Current) < CallIdx /\ CallIdx < endIndex(Current)

\* Loop 4c: Current is live at some call site.
CrossesCall(Current, calls) == \E CallIdx \in calls : liveAt(Current, CallIdx)

\* Variant: the pressure is measured after the eviction.
StepBasicMeasureAfterPop(sim, Current) ==
  LET RC == getRegClass(Current)
      ActiveList == push_back(RemoveExpired(sim.ActiveIntervals[RC], Current), Current)
      spill == StandardSpill(Len(ActiveList), sim.ClassStats[RC])
      Kept == IF spill THEN pop_back(ActiveList) ELSE ActiveList
      Stats0 == [sim.ClassStats[RC] EXCEPT !.CurrentPressure = Len(Kept)]
      Stats == UpdateMaxPressure(Stats0, Stats0.CurrentPressure)
  IN  [sim EXCEPT
         !.ClassStats[RC] =
            IF spill THEN [Stats EXCEPT !.SpillCount = @ + 1] ELSE Stats,
         !.ActiveIntervals[RC] = Kept]

\* Variant: finished intervals are removed from the active list of every class.
StepBasicExpireAll(sim, Current) ==
  LET RC == getRegClass(Current)
      Live == [c \in DOMAIN sim.ActiveIntervals |->
                 RemoveExpired(sim.ActiveIntervals[c], Current)]
      ActiveList == push_back(Live[RC], Current)
      Stats0 == [sim.ClassStats[RC] EXCEPT !.CurrentPressure = Len(ActiveList)]
      Stats == UpdateMaxPressure(Stats0, Stats0.CurrentPressure)
      spill == StandardSpill(Stats.CurrentPressure, Stats)
  IN  [sim EXCEPT
         !.ClassStats[RC] =
            IF spill THEN [Stats EXCEPT !.SpillCount = @ + 1] ELSE Stats,
         !.ActiveIntervals =
            [Live EXCEPT ![RC] = IF spill THEN pop_back(ActiveList) ELSE ActiveList]]

\* Body of the scan loop of the capacity-only pass.
StepBasic(sim, Current) ==
  LET RC == getRegClass(Current)
      ActiveList == push_back(RemoveExpired(sim.ActiveIntervals[RC], Current), Current)
      Stats0 == [sim.ClassStats[RC] EXCEPT !.CurrentPressure = Len(ActiveList)]
      Stats == UpdateMaxPressure(Stats0, Stats0.CurrentPressure)
      spill == StandardSpill(Stats.CurrentPressure, Stats)
  IN  [sim EXCEPT
         !.ClassStats[RC] =
            IF spill THEN [Stats EXCEPT !.SpillCount = @ + 1] ELSE Stats,
         !.ActiveIntervals[RC] =
            IF spill THEN pop_back(ActiveList) ELSE ActiveList]

\* Body of the scan loop of the ABI-aware pass (4a, 4b, 4c, pressure check).
StepAbi(sim, Current) ==
  LET RC == getRegClass(Current)
      ActiveList == push_back(RemoveExpired(sim.ActiveIntervals[RC], Current), Current)
      CallList0 == RemoveExpired(sim.ActiveAcrossCalls[RC], Current)
      crossesCall == CrossesCall(Current, CallSites)
      CallList == IF crossesCall THEN push_back(CallList0, Current) ELSE CallList0
      globalPressure == Len(ActiveList)
      Stats == UpdateMaxPressure(sim.ClassStats[RC], globalPressure)
      forcedSpill == ForcedSpill(CallList, Stats)
      standardSpill == StandardSpill(globalPressure, Stats)
      spill == SpillNow(forcedSpill, standardSpill)
  IN  [ClassStats |->
         [sim.ClassStats EXCEPT
            ![RC] = IF spill THEN [Stats EXCEPT !.SpillCount = @ + 1] ELSE Stats],
       ActiveIntervals |->
         [sim.ActiveIntervals EXCEPT
            ![RC] = IF spill THEN pop_back(ActiveList) ELSE ActiveList],
       ActiveAcrossCalls |->
         [sim.ActiveAcrossCalls EXCEPT
            ![RC] = IF spill /\ forcedSpill /\ CallList # <<>>
                    THEN pop_back(CallList) ELSE CallList],
       locals |->
         [crossesCall |-> crossesCall, globalPressure |-> globalPressure,
          forcedSpill |-> forcedSpill, standardSpill |-> standardSpill]]

\* Body of the scan loop of the "fixed" pass: the capacity-only step with the
\* pressure held in the local currentPressure.
StepFixed(sim, Current) ==
  LET RC == getRegClass(Current)
      ActiveList == push_back(RemoveExpired(sim.ActiveIntervals[RC], Current), Current)
      currentPressure == Len(ActiveList)
      Stats == UpdateMaxPressure(sim.ClassStats[RC], currentPressure)
      spill == StandardSpill(currentPressure, Stats)
  IN  [sim EXCEPT
         !.ClassStats[RC] =
            IF spill THEN [Stats EXCEPT !.SpillCount = @ + 1] ELSE Stats,
         !.ActiveIntervals[RC] =
            IF spill THEN pop_back(ActiveList) ELSE ActiveList,
         !.locals = [NoLocals EXCEPT !.globalPressure = currentPressure,
                                     !.standardSpill = spill]]

Step(v, sim, Current) ==
  IF v = "abi" THEN StepAbi(sim, Current)
  ELSE IF v = "fixed" THEN StepFixed(sim, Current)
  ELSE StepBasic(sim, Current)

\* The whole scan loop over an ordered interval list, from the state after collection.
RECURSIVE ScanFrom(_, _, _, _)
ScanFrom(v, sim, order, k) ==
  IF k > Len(order) THEN sim
  ELSE ScanFrom(v, Step(v, sim, order[k]), order, k + 1)

EmptyLists == [c \in Classes |-> <<>>]

Simulate(v, order) ==
  ScanFrom(v, SimState(CollectStats(v), EmptyLists, EmptyLists, NoLocals), order, 1)

\* ----------------------------------------------------------------- report
\* The largest set of fixed registers recorded under the class or a related one.
FixedCount(RC, usage) ==
  LET related == {FixedRC \in DOMAIN usage :
                    FixedRC = RC \/ hasSuperClass(RC, FixedRC) \/ hasSubClass(FixedRC, RC)}
      sizes == {Cardinality(usage[FixedRC]) : FixedRC \in related} \cup {0}
  IN  CHOOSE n \in sizes : \A m \in sizes : m <= n

\* The sum is reported as it is.
RealisticRegsUncapped(Stats, fixedCount) == Stats.MaxPressure + fixedCount

\* "REALISM FORMULA" and its cap.
RealisticRegs(Stats, fixedCount) ==
  LET realisticRegs == Stats.MaxPressure + fixedCount
  IN  IF realisticRegs > Stats.TotalPhysRegs /\ Stats.SpillCount = 0
      THEN Stats.TotalPhysRegs ELSE realisticRegs

ReportLine(v, c, Stats) ==
  IF v = "abi"
  THEN [spills |-> Stats.SpillCount, pressure |-> Stats.MaxPressure]
  ELSE IF v = "fixed"
  THEN [spills |-> Stats.SpillCount,
        pressure |-> RealisticRegs(Stats, FixedCount(c, FixedUsage))]
  ELSE [class |-> c, spills |-> Stats.SpillCount, pressure |-> Stats.MaxPressure]

RECURSIVE ReportFrom(_, _, _)
ReportFrom(v, stats, k) ==
  IF k > Len(ClassOrder) THEN <<>>
  ELSE IF ClassOrder[k] \in DOMAIN stats
       THEN <<ReportLine(v, ClassOrder[k], stats[ClassOrder[k]])>>
              \o ReportFrom(v, stats, k + 1)
       ELSE ReportFrom(v, stats, k + 1)

\* ---------------------------------------------------------------- actions
Init ==
  /\ variant \in Variants
  /\ vregs \in UNION {[1..n -> IntervalRecs] : n \in 0..MaxIntervals}
  /\ Allocatable \in AllocatableCounts
  /\ CallSites \in {S \in SUBSET Points : Cardinality(S) <= MaxCalls}
  /\ isRV32E \in BOOLEAN
  /\ variant # "abi" => CallSites = {} /\ isRV32E = FALSE
  /\ PhysOperands \in SUBSET PhysRegs
  /\ variant # "fixed" => PhysOperands = {}
  /\ FixedUsage = <<>>
  /\ pc = "collect"
  /\ Intervals = <<>>
  /\ idx = 1
  /\ ClassStats = <<>>
  /\ ActiveIntervals = EmptyLists
  /\ ActiveAcrossCalls = EmptyLists
  /\ locals = NoLocals
  /\ report = <<>>

\* The loop over the virtual registers.
Collect ==
  /\ pc = "collect"
  /\ Intervals' = CollectIntervals(variant)
  /\ ClassStats' = CollectStats(variant)
  /\ FixedUsage' = IF variant = "fixed" THEN CountFixedUsage(PhysOperands) ELSE FixedUsage
  /\ pc' = "sort"
  /\ UNCHANGED <<variant, vregs, Allocatable, CallSites, isRV32E, idx,
                 ActiveIntervals, ActiveAcrossCalls, locals, report, PhysOperands>>

Sort ==
  /\ pc = "sort"
  /\ Intervals' \in SortOutcomes(Intervals)
  /\ pc' = "scan"
  /\ UNCHANGED <<variant, vregs, Allocatable, CallSites, isRV32E, idx, ClassStats,
                 ActiveIntervals, ActiveAcrossCalls, locals, report,
                 PhysOperands, FixedUsage>>

\* The loop stops one interval short of the end.
ScanningButLast == pc = "scan" /\ idx < Len(Intervals)

Scanning == pc = "scan" /\ idx <= Len(Intervals)

ScanBasic ==
  /\ Scanning
  /\ variant = "basic"
  /\ LET sim == StepBasic(SimState(ClassStats, ActiveIntervals, ActiveAcrossCalls, locals),
                          Intervals[idx])
     IN  /\ ClassStats' = sim.ClassStats
         /\ ActiveIntervals' = sim.ActiveIntervals
  /\ idx' = idx + 1
  /\ UNCHANGED <<variant, vregs, Allocatable, CallSites, isRV32E, pc, Intervals,
                 ActiveAcrossCalls, locals, report, PhysOperands, FixedUsage>>

ScanFixed ==
  /\ Scanning
  /\ variant = "fixed"
  /\ LET sim == StepFixed(SimState(ClassStats, ActiveIntervals, ActiveAcrossCalls, locals),
                          Intervals[idx])
     IN  /\ ClassStats' = sim.ClassStats
         /\ ActiveIntervals' = sim.ActiveIntervals
         /\ locals' = sim.locals
  /\ idx' = idx + 1
  /\ UNCHANGED <<variant, vregs, Allocatable, CallSites, isRV32E, pc, Intervals,
                 ActiveAcrossCalls, report, PhysOperands, FixedUsage>>

ScanAbi ==
  /\ Scanning
  /\ variant = "abi"
  /\ LET sim == StepAbi(SimState(ClassStats, ActiveIntervals, ActiveAcrossCalls, locals),
                        Intervals[idx])
     IN  /\ ClassStats' = sim.ClassStats
         /\ ActiveIntervals' = sim.ActiveIntervals
         /\ ActiveAcrossCalls' = sim.ActiveAcrossCalls
         /\ locals' = sim.locals
  /\ idx' = idx + 1
  /\ UNCHANGED <<variant, vregs, Allocatable, CallSites, isRV32E, pc, Intervals, report,
                 PhysOperands, FixedUsage>>

\* The loop over ClassStats that writes one line per entry.
Report ==
  /\ pc = "scan"
  /\ idx > Len(Intervals)
  /\ report' = ReportFrom(variant, ClassStats, 1)
  /\ pc' = "done"
  /\ UNCHANGED <<variant, vregs, Allocatable, CallSites, isRV32E, Intervals, idx,
                 ClassStats, ActiveIntervals, ActiveAcrossCalls, locals,
                 PhysOperands, FixedUsage>>

Next == Collect \/ Sort \/ ScanBasic \/ ScanFixed \/ ScanAbi \/ Report

Spec == Init /\ [][Next]_vars


\* ======================================================================
\* Properties
\* ======================================================================
Max(a, b) == IF a > b THEN a ELSE b

IsEmptyRange(i) == vregs[i].start = vregs[i].end

VRegsOf(c) == {i \in 1..Len(vregs) : vregs[i].rc = c}

\* Number of intervals of class c alive at point p (start <= p < end).
AliveAt(c, p) ==
  Cardinality({i \in VRegsOf(c) : vregs[i].start <= p /\ p < vregs[i].end})

\* The true peak of class c over all program points.
TruePeak(c) == CHOOSE m \in 0..Len(vregs) :
  /\ \A p \in Points : AliveAt(c, p) <= m
  /\ m = 0 \/ \E p \in Points : AliveAt(c, p) = m

\* What the expire phase keeps: the members that end after the point s.
EndingAfter(list, s) ==
  LET Ends(a) == vregs[a].end > s IN SelectSeq(list, Ends)

\* The entries of one list that are members of another, in order.
Restrict(list, members) ==
  LET In(a) == a \in Range(members) IN SelectSeq(list, In)

\* A scan iteration is taken from this state to the next.
ScanStep == Scanning /\ idx' = idx + 1

Scanned == IF pc \in {"scan", "done"} THEN SubSeq(Intervals, 1, idx - 1) ELSE <<>>

PressureAndSpills(stats) ==
  [c \in DOMAIN stats |-> <<stats[c].MaxPressure, stats[c].SpillCount>>]

C2_CallListWithinActive ==
  \A c \in Classes :
    Restrict(ActiveIntervals[c], ActiveAcrossCalls[c]) = ActiveAcrossCalls[c]

\* ---------------------------------------------------------------------
\* C3: an interval with start = end is never counted in the pressure of a
\* scan iteration: the pressure measured is the number of non-empty
\* intervals among the unexpired active ones and Current.
C3_EmptyNeverCounted ==
  [][ScanStep =>
       LET Current == Intervals[idx]
           RC == vregs[Current].rc
           admitted == Append(EndingAfter(ActiveIntervals[RC], vregs[Current].start),
                              Current)
           NonEmpty(a) == ~IsEmptyRange(a)
           measured == IF variant = "basic" THEN ClassStats'[RC].CurrentPressure
                       ELSE locals'.globalPressure
       IN  measured = Len(SelectSeq(admitted, NonEmpty))]_vars

\* ---------------------------------------------------------------------
\* C4: the statistics do not depend on the order in which the intervals are
\* supplied: a run on any permutation of the collection ends with the same
\* MaxPressure and SpillCount for every class.  Stated here for the inputs
\* whose intervals all have start < end.
C4_OrderIrrelevant ==
  (pc = "done" /\ \A i \in 1..Len(vregs) : ~IsEmptyRange(i)) =>
    \A supplied \in Permutations(CollectIntervals(variant)) :
      \A order \in SortOutcomes(supplied) :
        PressureAndSpills(Simulate(variant, order).ClassStats)
          = PressureAndSpills(ClassStats)

\* ---------------------------------------------------------------------
\* C5: the ordering stage outputs the collected intervals sorted ascending
\* by start with ties in their original collection order.
PositionIn(s, x) == CHOOSE k \in 1..Len(s) : s[k] = x

IsStableOrder(q, s) ==
  \A i, j \in 1..Len(q) :
    (i < j /\ vregs[q[i]].start = vregs[q[j]].start)
      => PositionIn(s, q[i]) < PositionIn(s, q[j])

C5_StableSort ==
  pc \in {"scan", "done"} =>
    /\ Intervals \in Permutations(CollectIntervals(variant))
    /\ \A i, j \in 1..Len(Intervals) :
         i < j => vregs[Intervals[i]].start <= vregs[Intervals[j]].start
    /\ IsStableOrder(Intervals, CollectIntervals(variant))

\* ---------------------------------------------------------------------
\* C6: when the callee-saved limit is at least the number of intervals, the
\* ABI gate never fires and, after every scan iteration, every class of the
\* ABI-aware pass has the MaxPressure and SpillCount the capacity-only pass
\* computes on the same ordered intervals.
C6_UnboundedLimit ==
  (variant = "abi" /\ savedRegLimit(isRV32E) >= Len(vregs)) =>
    /\ ~locals.forcedSpill
    /\ \A c \in DOMAIN ClassStats :
         ClassStats[c].CalleeSavedLimit >= Len(vregs)
    /\ LET capacityOnly == Simulate("basic", Scanned).ClassStats
       IN  \A c \in DOMAIN ClassStats :
             /\ ClassStats[c].TotalPhysRegs >= 1
             /\ ClassStats[c].MaxPressure = capacityOnly[c].MaxPressure
             /\ ClassStats[c].SpillCount = capacityOnly[c].SpillCount

C6_Witness ==
  /\ variant = "abi"
  /\ pc = "done"
  /\ savedRegLimit(isRV32E) >= Len(vregs)
  /\ \E c \in DOMAIN ClassStats :
       /\ ClassStats[c].SpillCount = 1
       /\ Len(ActiveAcrossCalls[c]) = 2
  /\ \E i \in 1..Len(vregs) : Allocatable[vregs[i].rc] = 0

\* ---------------------------------------------------------------------
\* C7: in a scan iteration of the ABI-aware pass in which, after Current is
\* admitted, the call-crossing list is longer than the callee-saved limit,
\* exactly one spill is recorded and Current, the last entry of both lists,
\* is removed from both; with 20 registers, a limit of 2 and three intervals
\* of one class all live at the one call site the result is MaxPressure 3
\* and SpillCount 1.
C7_AbiGateStep ==
  ScanStep /\ variant = "abi" =>
    LET Current == Intervals[idx]
        RC == vregs[Current].rc
        start == vregs[Current].start
        crosses == \E p \in CallSites : start <= p /\ p < vregs[Current].end
        keptCalls == EndingAfter(ActiveAcrossCalls[RC], start)
        keptActive == EndingAfter(ActiveIntervals[RC], start)
        crossing == Len(keptCalls) + (IF crosses THEN 1 ELSE 0)
    IN  crossing > ClassStats[RC].CalleeSavedLimit =>
          /\ crosses
          /\ ClassStats'[RC].SpillCount = ClassStats[RC].SpillCount + 1
          /\ ActiveIntervals'[RC] = keptActive
          /\ ActiveAcrossCalls'[RC] = keptCalls

C7_Scenario ==
  /\ variant = "abi"
  /\ isRV32E
  /\ Len(vregs) = 3
  /\ Allocatable["GPR"] = 20
  /\ \E p \in Points :
       /\ CallSites = {p}
       /\ \A i \in 1..3 :
            vregs[i].rc = "GPR" /\ vregs[i].start <= p /\ p < vregs[i].end

C7_AbiGate ==
  /\ [][C7_AbiGateStep]_vars
  /\ [](C7_Scenario /\ pc = "done" =>
          /\ ClassStats["GPR"].MaxPressure = 3
          /\ ClassStats["GPR"].SpillCount = 1
          /\ Len(ActiveIntervals["GPR"]) = 2
          /\ ActiveAcrossCalls["GPR"] = ActiveIntervals["GPR"])

C7_Witness ==
  /\ C7_Scenario
  /\ pc = "done"
  /\ locals.forcedSpill
  /\ ~locals.standardSpill
  /\ ClassStats["GPR"].SpillCount = 1

\* ---------------------------------------------------------------------
\* C8: LIFO eviction under the capacity gate: in a scan iteration in which
\* the active list with Current admitted is longer than the class's capacity,
\* exactly one spill is recorded and the interval removed is Current, so the
\* unexpired earlier members stay, in order; [0,2) then [1,2) with capacity 1
\* gives one spill and leaves only [0,2) active.
C8_CapacityGateStep ==
  ScanStep =>
    LET Current == Intervals[idx]
        RC == vregs[Current].rc
        keptActive == EndingAfter(ActiveIntervals[RC], vregs[Current].start)
    IN  Len(keptActive) + 1 > ClassStats[RC].TotalPhysRegs =>
          /\ ClassStats'[RC].SpillCount = ClassStats[RC].SpillCount + 1
          /\ ActiveIntervals'[RC] = keptActive
          /\ Current \notin Range(ActiveIntervals'[RC])

C8_Scenario ==
  /\ variant = "basic"
  /\ vregs = <<[start |-> 0, end |-> 2, rc |-> "GPR"],
               [start |-> 1, end |-> 2, rc |-> "GPR"]>>
  /\ Allocatable["GPR"] = 1

C8_LifoEviction ==
  /\ [][C8_CapacityGateStep]_vars
  /\ [](C8_Scenario /\ pc = "done" =>
          /\ ClassStats["GPR"].SpillCount = 1
          /\ ClassStats["GPR"].MaxPressure = 2
          /\ ActiveIntervals["GPR"] = <<1>>)

C8_Witness ==
  /\ C8_Scenario
  /\ pc = "done"
  /\ ClassStats["GPR"].SpillCount = 1
  /\ ActiveIntervals["GPR"] = <<1>>

\* ---------------------------------------------------------------------
\* C9: two intervals A and B of one class with A.end <= B.start are never
\* both members of the class's active list.
C9_NeverBothActive ==
  \A c \in Classes :
    \A A, B \in Range(ActiveIntervals[c]) :
      A # B => ~(vregs[A].end <= vregs[B].start)

\* ---------------------------------------------------------------------
\* C10: spills are counted per step: a scan iteration of the ABI-aware pass
\* adds 1 to the class's SpillCount and removes one interval from its active
\* list if the ABI gate or the capacity gate (or both) fires, and adds 0
\* otherwise; SpillCount never exceeds the number of the class's intervals
\* scanned so far.
C10_SpillStep ==
  ScanStep /\ variant = "abi" =>
    LET Current == Intervals[idx]
        RC == vregs[Current].rc
        start == vregs[Current].start
        crosses == \E p \in CallSites : start <= p /\ p < vregs[Current].end
        crossing == Len(EndingAfter(ActiveAcrossCalls[RC], start))
                      + (IF crosses THEN 1 ELSE 0)
        pressure == Len(EndingAfter(ActiveIntervals[RC], start)) + 1
        fires == \/ crossing > ClassStats[RC].CalleeSavedLimit
                 \/ pressure > ClassStats[RC].TotalPhysRegs
        n == IF fires THEN 1 ELSE 0
    IN  /\ ClassStats'[RC].SpillCount = ClassStats[RC].SpillCount + n
        /\ Len(ActiveIntervals'[RC]) = pressure - n

ScannedOf(c) == {k \in 1..Len(Scanned) : vregs[Scanned[k]].rc = c}

C10_SpillPerStep ==
  /\ [][C10_SpillStep]_vars
  /\ [](variant = "abi" =>
          \A c \in DOMAIN ClassStats :
            ClassStats[c].SpillCount <= Cardinality(ScannedOf(c)))

C10_Witness ==
  /\ variant = "abi"
  /\ pc = "done"
  /\ locals.forcedSpill
  /\ locals.standardSpill
  /\ \E c \in DOMAIN ClassStats :
       /\ ClassStats[c].SpillCount = 1
       /\ Cardinality(ScannedOf(c)) = 3

\* ---------------------------------------------------------------------
\* C11: across the scan a class's SpillCount and MaxPressure never decrease:
\* no step of the pass lowers either counter of a class that has a record.
C11_CountersStep ==
  \A c \in DOMAIN ClassStats :
    /\ c \in DOMAIN ClassStats'
    /\ ClassStats'[c].SpillCount >= ClassStats[c].SpillCount
    /\ ClassStats'[c].MaxPressure >= ClassStats[c].MaxPressure

C11_MonotoneCounters == [][C11_CountersStep]_vars

\* A step measured a pressure below the class's maximum after a spill.
C11_Witness ==
  /\ pc = "done"
  /\ \E c \in DOMAIN ClassStats :
       /\ ClassStats[c].SpillCount >= 1
       /\ ClassStats[c].MaxPressure >= 2
       /\ locals.globalPressure >= 1
       /\ locals.globalPressure < ClassStats[c].MaxPressure
       /\ vregs[Intervals[Len(Intervals)]].rc = c

\* ---------------------------------------------------------------------
\* C12: in the ABI-aware pass the step of Current classifies it as crossing a
\* call exactly when some call point p has start <= p < end (a call at the
\* start counts, a call at the end does not), and Current is then appended to
\* the call list of its class: after the step it is on that list exactly when
\* it crosses a call and the ABI gate did not take it off again.
C12_ClassifyStep ==
  (ScanStep /\ variant = "abi") =>
    LET Current == Intervals[idx]
        RC == vregs[Current].rc
        start == vregs[Current].start
        crosses == \E p \in CallSites : start <= p /\ p < vregs[Current].end
        keptCalls == EndingAfter(ActiveAcrossCalls[RC], start)
        appended == IF crosses THEN keptCalls \o <<Current>> ELSE keptCalls
    IN  /\ locals'.crossesCall = crosses
        /\ locals'.forcedSpill =
             (crosses /\ Len(appended) > ClassStats[RC].CalleeSavedLimit)
        /\ ActiveAcrossCalls'[RC] =
             IF locals'.forcedSpill THEN keptCalls ELSE appended

C12_CallCrossing == [][C12_ClassifyStep]_vars

\* One interval starts at the call and is on the call list; another of the
\* same class ends at the call and never was.
C12_Witness ==
  /\ variant = "abi"
  /\ pc = "done"
  /\ \E p \in CallSites, i, j \in Range(Intervals) :
       /\ vregs[i].rc = vregs[j].rc
       /\ vregs[i].start = p
       /\ vregs[j].start < p /\ vregs[j].end = p
       /\ ActiveAcrossCalls[vregs[i].rc] = <<i>>
       /\ locals.crossesCall

\* ---------------------------------------------------------------------
\* C13 (as stated): a class with capacity 0 that has intervals still gets its
\* record; every one of its intervals records a spill and is evicted at once,
\* so its active list is empty after every step and its final SpillCount is
\* the number of its intervals.
ZeroCapacityClasses == {c \in Classes : Allocatable[c] = 0 /\ VRegsOf(c) # {}}

C13_ZeroCapacityCounted ==
  pc = "done" =>
    \A c \in ZeroCapacityClasses :
      /\ c \in DOMAIN ClassStats
      /\ ClassStats[c].SpillCount = Cardinality(VRegsOf(c))
      /\ Len(report) = Cardinality(DOMAIN ClassStats)

\* C13 (amended): the capacity-only passes behave as stated; the ABI-aware
\* pass leaves the intervals of a class with no allocatable register out of
\* the scan, so the class gets no record and no spill is counted for it.
C13_ZeroCapacityStep ==
  ScanStep =>
    LET RC == vregs[Intervals[idx]].rc
    IN  ClassStats[RC].TotalPhysRegs = 0 =>
          /\ variant # "abi"
          /\ ClassStats'[RC].SpillCount = ClassStats[RC].SpillCount + 1
          /\ ActiveIntervals'[RC] = <<>>

C13_ZeroCapacity ==
  /\ [][C13_ZeroCapacityStep]_vars
  /\ [](\A c \in ZeroCapacityClasses :
          /\ ActiveIntervals[c] = <<>>
          /\ variant = "abi" =>
               /\ c \notin DOMAIN ClassStats
               /\ \A i \in VRegsOf(c) : i \notin Range(Intervals)
          /\ (variant # "abi" /\ pc = "done") =>
               /\ c \in DOMAIN ClassStats
               /\ ClassStats[c].SpillCount = Cardinality(VRegsOf(c))
               /\ ClassStats[c].TotalPhysRegs = 0
               /\ Len(report) = Cardinality(DOMAIN ClassStats))

\* A capacity-only pass ended with two spills for a class of capacity 0.
C13_Witness ==
  /\ variant # "abi"
  /\ pc = "done"
  /\ \E c \in ZeroCapacityClasses :
       /\ ClassStats[c].SpillCount = 2
       /\ Cardinality(VRegsOf(c)) = 2
       /\ ActiveIntervals[c] = <<>>

\* ---------------------------------------------------------------------
\* C14: the final report holds exactly one record for each class that has at
\* least one collected interval and none for any other class; with no
\* collected interval the report is empty.
CollectedClasses == {vregs[i].rc : i \in Range(Intervals)}

C14_OneRecordPerClass ==
  pc = "done" =>
    /\ Len(report) = Cardinality(CollectedClasses)
    /\ variant = "basic" =>
         /\ \A k \in 1..Len(report) : report[k].class \in CollectedClasses
         /\ \A c \in CollectedClasses :
              Cardinality({k \in 1..Len(report) : report[k].class = c}) = 1
    /\ Intervals = <<>> => report = <<>>

\* Two intervals of one class were collected and none of the other class.
C14_Witness ==
  /\ pc = "done"
  /\ variant = "basic"
  /\ Len(Intervals) = 2
  /\ CollectedClasses = {"FPR"}
  /\ Len(report) = 1
  /\ report[1].class = "FPR"

\* ---------------------------------------------------------------------
\* C15: in the fixed-physical-register pass the pressure reported for a class
\* is min(MaxPressure + fixedCount, capacity) when the class has no spill and
\* the uncapped sum MaxPressure + fixedCount when it has one; a class reported
\* with spills = 0 never reports a pressure above its capacity.
Min(a, b) == IF a < b THEN a ELSE b

\* The report line of a class that has a record.
LineOf(c) ==
  report[Cardinality({k \in 1..Len(ClassOrder) :
                        /\ ClassOrder[k] \in DOMAIN ClassStats
                        /\ k <= PositionIn(ClassOrder, c)})]

\* The physical registers of the class that occur as operands.
FixedOperandsOf(c) == {Reg \in PhysOperands : contains(c, Reg)}

C15_RealisticPressure ==
  (pc = "done" /\ variant = "fixed") =>
    \A c \in DOMAIN ClassStats :
      LET Stats == ClassStats[c]
          sum == Stats.MaxPressure + Cardinality(FixedOperandsOf(c))
      IN  /\ LineOf(c).spills = Stats.SpillCount
          /\ Stats.SpillCount = 0 =>
               /\ LineOf(c).pressure = Min(sum, Stats.TotalPhysRegs)
               /\ LineOf(c).pressure <= Stats.TotalPhysRegs
          /\ Stats.SpillCount > 0 => LineOf(c).pressure = sum

\* One class is reported at its capacity because of the cap, another above
\* its capacity because it spilled.
C15_Witness ==
  /\ pc = "done"
  /\ variant = "fixed"
  /\ \E c, d \in DOMAIN ClassStats :
       /\ ClassStats[c].SpillCount = 0
       /\ ClassStats[c].MaxPressure + Cardinality(FixedOperandsOf(c))
            > ClassStats[c].TotalPhysRegs
       /\ LineOf(c).pressure = ClassStats[c].TotalPhysRegs
       /\ ClassStats[d].SpillCount > 0
       /\ FixedOperandsOf(d) # {}
       /\ LineOf(d).pressure > ClassStats[d].TotalPhysRegs + 1

\* ---------------------------------------------------------------------
\* C17: the scan takes exactly one step per collected interval, in sorted
\* order and never twice for the same interval, and then reports: with N
\* collected intervals the pass cannot stop before the report, every scan
\* step uses up one of the N intervals, and the report is reached after
\* exactly N steps.
CollectedVRegs == {i \in 1..Len(vregs) : Collected(variant, i)}

\* Steps still to run before the pass returns.
StepsLeft ==
  CASE pc = "collect" -> Cardinality(CollectedVRegs) + 3
    [] pc = "sort"    -> Len(Intervals) + 2
    [] pc = "scan"    -> (Len(Intervals) + 1 - idx) + 1
    [] OTHER          -> 0

C17_OneStepEach ==
  /\ StepsLeft' = StepsLeft - 1
  /\ (pc = "scan" /\ <<ClassStats, ActiveIntervals, ActiveAcrossCalls>>'
                       # <<ClassStats, ActiveIntervals, ActiveAcrossCalls>>)
       => ScanStep
  /\ ScanStep => /\ Intervals' = Intervals
                 /\ Scanned' = Scanned \o <<Intervals[idx]>>

C17_ScanTerminates ==
  /\ [][C17_OneStepEach]_vars
  /\ [](pc # "done" => ENABLED Next)
  /\ [](pc = "done" =>
          /\ idx - 1 = Cardinality(CollectedVRegs)
          /\ Scanned = Intervals
          /\ Range(Scanned) = CollectedVRegs
          /\ IsSortedByBegin(Scanned))

\* Three intervals were scanned, each once, and the report was written.
C17_Witness ==
  /\ pc = "done"
  /\ idx = 4
  /\ Cardinality(Range(Scanned)) = 3
  /\ Len(report) >= 1

\* ---------------------------------------------------------------------
\* C18: pressure is measured after Current is appended and before any
\* eviction: a class's MaxPressure starts at 0 and each of its steps raises it
\* to the length of the active list with Current on it when that is larger,
\* so at the end it is the largest such length over the class's steps.
C18_MeasureStep ==
  ScanStep =>
    LET Current == Intervals[idx]
        RC == vregs[Current].rc
        appended == EndingAfter(ActiveIntervals[RC], vregs[Current].start)
                      \o <<Current>>
    IN  ClassStats'[RC].MaxPressure = Max(ClassStats[RC].MaxPressure, Len(appended))

C18_MeasuredBeforeEviction ==
  /\ [][C18_MeasureStep]_vars
  /\ [](\A c \in DOMAIN ClassStats :
          /\ ScannedOf(c) = {} => ClassStats[c].MaxPressure = 0
          /\ ScannedOf(c) # {} => ClassStats[c].MaxPressure >= 1)

\* The list was longest in a step whose interval was then evicted.
C18_Witness ==
  /\ pc = "done"
  /\ \E c \in DOMAIN ClassStats :
       /\ ClassStats[c].TotalPhysRegs = 2
       /\ ClassStats[c].MaxPressure = 3
       /\ ClassStats[c].SpillCount = 1
       /\ Len(ActiveIntervals[c]) = 2

\* ---------------------------------------------------------------------
\* C19: a step for an interval of one class leaves every other class's active
\* list, call list, MaxPressure and SpillCount as they were; in particular it
\* does not remove the finished intervals of another class.
C19_IsolationStep ==
  ScanStep =>
    LET RC == vregs[Intervals[idx]].rc
    IN  /\ DOMAIN ClassStats' = DOMAIN ClassStats
        /\ \A c \in Classes \ {RC} :
             /\ ActiveIntervals'[c] = ActiveIntervals[c]
             /\ ActiveAcrossCalls'[c] = ActiveAcrossCalls[c]
             /\ c \in DOMAIN ClassStats =>
                  /\ ClassStats'[c].MaxPressure = ClassStats[c].MaxPressure
                  /\ ClassStats'[c].SpillCount = ClassStats[c].SpillCount

C19_ClassIsolation == [][C19_IsolationStep]_vars

\* After a step of one class the other class still lists an interval that
\* ended at or before the start of the interval just scanned.
C19_Witness ==
  /\ pc \in {"scan", "done"}
  /\ idx > 1
  /\ LET Current == Intervals[idx - 1]
     IN  \E c \in Classes \ {vregs[Current].rc} :
           \E a \in Range(ActiveIntervals[c]) :
             /\ vregs[a].end <= vregs[Current].start
             /\ ClassStats[c].MaxPressure >= 1

\* ---------------------------------------------------------------------
\* C20: after every completed step the active list of the stepped class holds
\* at most TotalPhysRegs intervals, and so every class's MaxPressure stays at
\* most TotalPhysRegs + 1, up to and including the report.
C20_StepWithinCapacity ==
  ScanStep =>
    LET RC == vregs[Intervals[idx]].rc
    IN  Len(ActiveIntervals'[RC]) <= ClassStats'[RC].TotalPhysRegs

C20_ActiveWithinCapacity ==
  /\ [][C20_StepWithinCapacity]_vars
  /\ [](\A c \in DOMAIN ClassStats :
          /\ Len(ActiveIntervals[c]) <= ClassStats[c].TotalPhysRegs
          /\ ClassStats[c].MaxPressure <= ClassStats[c].TotalPhysRegs + 1)

\* A class ended with a full active list and a pressure one above capacity.
C20_Witness ==
  /\ pc = "done"
  /\ \E c \in DOMAIN ClassStats :
       /\ ClassStats[c].TotalPhysRegs = 1
       /\ Len(ActiveIntervals[c]) = 1
       /\ ClassStats[c].MaxPressure = 2
       /\ ClassStats[c].SpillCount = 2

\* ---------------------------------------------------------------------
\* C21: in the ABI-aware pass the call list of the stepped class holds at
\* most CalleeSavedLimit entries after every completed step, and so does the
\* call list of every class with a record in every state of the pass.
C21_StepWithinLimit ==
  (ScanStep /\ variant = "abi") =>
    LET RC == vregs[Intervals[idx]].rc
    IN  Len(ActiveAcrossCalls'[RC]) <= ClassStats'[RC].CalleeSavedLimit

C21_CallListWithinLimit ==
  /\ [][C21_StepWithinLimit]_vars
  /\ [](variant = "abi" =>
          \A c \in DOMAIN ClassStats :
            Len(ActiveAcrossCalls[c]) <= ClassStats[c].CalleeSavedLimit)

\* The gate fired on the third call-crossing interval and left the list at
\* the limit of 2.
C21_Witness ==
  /\ variant = "abi"
  /\ pc = "done"
  /\ locals.forcedSpill
  /\ \E c \in DOMAIN ClassStats :
       /\ ClassStats[c].CalleeSavedLimit = 2
       /\ Len(ActiveAcrossCalls[c]) = 2
       /\ vregs[Intervals[Len(Intervals)]].rc = c

\* ---------------------------------------------------------------------
\* C22: an interval still on its class's active list at the end of its own
\* step is never evicted by a later spill: a later step removes it only if it
\* is a step of the same class whose Current starts at or after the
\* interval's end, and otherwise keeps it, in its place, on the list.
C22_SurvivorStep ==
  ScanStep =>
    LET Current == Intervals[idx]
        RC == vregs[Current].rc
        start == vregs[Current].start
        kept == EndingAfter(ActiveIntervals[RC], start)
    IN  /\ \A c \in Classes :
             \A a \in Range(ActiveIntervals[c]) :
               \/ a \in Range(ActiveIntervals'[c])
               \/ c = RC /\ vregs[a].end <= start
        /\ Len(ActiveIntervals'[RC]) >= Len(kept)
        /\ SubSeq(ActiveIntervals'[RC], 1, Len(kept)) = kept

C22_SurvivorsOnlyExpire ==
  /\ [][C22_SurvivorStep]_vars
  /\ [](\A c \in Classes : Range(ActiveIntervals[c]) \subseteq Range(Scanned))

\* The first interval outlived two later spills of its class.
C22_Witness ==
  /\ pc = "done"
  /\ Len(Intervals) = 3
  /\ \E c \in DOMAIN ClassStats :
       /\ ClassStats[c].TotalPhysRegs = 1
       /\ ClassStats[c].SpillCount = 2
       /\ ActiveIntervals[c] = <<Intervals[1]>>

\* ---------------------------------------------------------------------
\* C23: in the capacity-only passes a class has SpillCount > 0 exactly when
\* its MaxPressure is above TotalPhysRegs, after every step and at the report.
CapacityOnly == variant \in {"basic", "fixed"}

C23_SpillsIffOverCapacity ==
  CapacityOnly =>
    \A c \in DOMAIN ClassStats :
      (ClassStats[c].SpillCount > 0)
        <=> (ClassStats[c].MaxPressure > ClassStats[c].TotalPhysRegs)

\* One class ended exactly at its capacity without a spill, the other one
\* above its capacity with spills.
C23_Witness ==
  /\ CapacityOnly
  /\ pc = "done"
  /\ \E c, d \in DOMAIN ClassStats :
       /\ ClassStats[c].SpillCount = 0
       /\ ClassStats[c].MaxPressure = ClassStats[c].TotalPhysRegs
       /\ ClassStats[d].SpillCount > 0
       /\ ClassStats[d].MaxPressure = ClassStats[d].TotalPhysRegs + 1

\* ---------------------------------------------------------------------
\* C24: in the ABI-aware pass the ABI gate fires only in a step whose Current
\* crosses a call; the last entry of the call list, which the gate pops, is
\* then Current, the same interval the step pops from the active list, so
\* no interval admitted earlier leaves either list through the gate.
C24_GateStep ==
  (ScanStep /\ variant = "abi" /\ locals'.forcedSpill) =>
    LET Current == Intervals[idx]
        RC == vregs[Current].rc
        start == vregs[Current].start
        CallListAtGate == EndingAfter(ActiveAcrossCalls[RC], start)
                            \o (IF locals'.crossesCall THEN <<Current>> ELSE <<>>)
        ActiveListAtGate == EndingAfter(ActiveIntervals[RC], start) \o <<Current>>
    IN  /\ \E p \in CallSites : start <= p /\ p < vregs[Current].end
        /\ CallListAtGate[Len(CallListAtGate)] = Current
        /\ ActiveAcrossCalls'[RC] \o <<Current>> = CallListAtGate
        /\ ActiveIntervals'[RC] \o <<Current>> = ActiveListAtGate
        /\ Range(ActiveAcrossCalls[RC]) \cap Range(CallListAtGate)
             \subseteq Range(ActiveAcrossCalls'[RC])

C24_GatePopsCurrent ==
  /\ [][C24_GateStep]_vars
  /\ [](locals.forcedSpill => locals.crossesCall)

\* The gate fired with registers to spare: only the ABI limit evicted Current.
C24_Witness ==
  /\ variant = "abi"
  /\ pc = "done"
  /\ locals.forcedSpill
  /\ ~locals.standardSpill
  /\ LET Current == Intervals[Len(Intervals)]
     IN  /\ Current \notin Range(ActiveAcrossCalls[vregs[Current].rc])
         /\ Current \notin Range(ActiveIntervals[vregs[Current].rc])
         /\ Len(ActiveIntervals[vregs[Current].rc]) = 2

=============================================================================
